---- MODULE Spec2Model ----
(***************************************************************************)
(* The Hooks registry of js-hooks (src/unnamed/part_000, class Hooks):     *)
(* two stores, actions and filters, each a plain JavaScript object mapping *)
(* a tag to an array of {priority, callback} entries, with add / remove /  *)
(* has operations and the two dispatch operations doAction and             *)
(* applyFilters.  Dispatch is modelled one callback invocation per step,   *)
(* so that callbacks which re-enter the registry interleave with the       *)
(* dispatch that invoked them exactly as the synchronous code does.        *)
(***************************************************************************)
EXTENDS Integers, Sequences, FiniteSets, TLC

(***************************************************************************)
(* Bounds of the model.                                                    *)
(***************************************************************************)
\* Most entries the two stores hold together.
MaxEntries == 3
\* The values handed to applyFilters are 0..MaxValue.
MaxValue == 1

\* addAction(tag, callback, priority = 10), addFilter likewise.
DefaultPriority == 10

\* Tags the callers use: the empty string, which is a property key like any
\* other, and the name of a property every object inherits from
\* Object.prototype.
Tags == {"", "constructor"}
Priorities == {5, 10}
\* The options value a dispatch hands to every callback.
Options == Priorities
Values == 0..MaxValue

(***************************************************************************)
(* JavaScript values a slot store[tag] can hold or yield.                  *)
(***************************************************************************)
Undefined == [kind |-> "undefined", length |-> 0, items |-> <<>>]
Fn(n) == [kind |-> "function", length |-> n, items |-> <<>>]
Arr(s) == [kind |-> "array", length |-> Len(s), items |-> s]
\* An object that is neither a function nor an array and has no length
\* property: its .length is undefined, written -1 (undefined > 0 is false).
Obj == [kind |-> "object", length |-> -1, items |-> <<>>]

\* !!v
Truthy(v) == v.kind # "undefined"

\* What `{}`[tag] yields when the object has no own property tag: the
\* property inherited from Object.prototype, which is a function whose
\* length is its declared arity or, for __proto__, Object.prototype itself;
\* undefined for every other tag.
ProtoValue(tag) ==
    CASE tag = "constructor" -> Fn(1)
      [] tag = "hasOwnProperty" -> Fn(1)
      [] tag = "isPrototypeOf" -> Fn(1)
      [] tag = "propertyIsEnumerable" -> Fn(1)
      [] tag = "toString" -> Fn(0)
      [] tag = "toLocaleString" -> Fn(0)
      [] tag = "valueOf" -> Fn(0)
      [] tag = "__defineGetter__" -> Fn(2)
      [] tag = "__defineSetter__" -> Fn(2)
      [] tag = "__lookupGetter__" -> Fn(1)
      [] tag = "__lookupSetter__" -> Fn(1)
      [] tag = "__proto__" -> Obj
      [] OTHER -> Undefined

\* this.actions = {}; this.filters = {};
EmptyObject == [t \in Tags |-> ProtoValue(t)]


(***************************************************************************)
(* Values a call returns, and the errors a call can end with.              *)
(***************************************************************************)
RetUndefined == [kind |-> "undefined", b |-> FALSE, n |-> 0]
RetBool(x) == [kind |-> "boolean", b |-> x, n |-> 0]
RetNum(x) == [kind |-> "number", b |-> FALSE, n |-> x]

NoError == "none"
\* "x.push is not a function", "x.sort is not a function", ...
TypeError == "TypeError"

(***************************************************************************)
(* The callbacks the callers register.  The registry treats a callback as  *)
(* an opaque function; these are the functions of this model's callers.    *)
(* Action callbacks receive (options), filter callbacks (value, options).  *)
(*   a1      () => {}                                                      *)
(*   aAdd    (options) => hooks.addAction(ReentryTag, a1, options)         *)
(*   aRm     () => hooks.removeAction(ReentryTag, a1)                      *)
(*   aThrow  () => { throw ErrorA }                                        *)
(*   aNest   (options) => { hooks.applyFilters(ReentryTag, 0, options) }   *)
(*   f1      (value, options) => value + options                           *)
(*   f2      (value) => value * 2                                          *)
(*   fThrow  () => { throw ErrorF }                                        *)
(***************************************************************************)
ActionCallbacks == {"a1", "aAdd", "aRm", "aThrow", "aNest"}
FilterCallbacks == {"f1", "f2", "fThrow"}
ReentryTag == ""
ErrorOf(callback) ==
    CASE callback = "aThrow" -> "ErrorA"
      [] callback = "fThrow" -> "ErrorF"
      [] OTHER -> NoError
\* callback(value, options) of a filter callback that returns.
FilterResult(callback, value, options) ==
    CASE callback = "f1" -> value + options
      [] callback = "f2" -> value * 2
      [] OTHER -> value

(***************************************************************************)
(* Array.prototype.sort((a, b) => a.priority - b.priority): a stable sort  *)
(* (ECMAScript 2019), modelled as the insertion sort that moves an element *)
(* left only past elements the comparator puts strictly after it.          *)
(***************************************************************************)
Compare(a, b) == a.priority - b.priority

RECURSIVE InsertSorted(_, _)
InsertSorted(sorted, e) ==
    IF sorted = <<>> THEN <<e>>
    ELSE LET last == sorted[Len(sorted)] IN
         IF Compare(last, e) > 0
         THEN Append(InsertSorted(SubSeq(sorted, 1, Len(sorted) - 1), e), last)
         ELSE Append(sorted, e)

\* A sort that is not stable: an element also moves left past elements the
\* comparator calls equal, so entries of one priority end up reversed.
RECURSIVE InsertBeforeEqual(_, _)
InsertBeforeEqual(sorted, e) ==
    IF sorted = <<>> THEN <<e>>
    ELSE LET last == sorted[Len(sorted)] IN
         IF Compare(last, e) >= 0
         THEN Append(InsertBeforeEqual(SubSeq(sorted, 1, Len(sorted) - 1), e), last)
         ELSE Append(sorted, e)

RECURSIVE SortEntriesTiesReversed(_)
SortEntriesTiesReversed(items) ==
    IF items = <<>> THEN <<>>
    ELSE InsertBeforeEqual(SortEntriesTiesReversed(SubSeq(items, 1, Len(items) - 1)),
                           items[Len(items)])

RECURSIVE SortEntries(_)
SortEntries(items) ==
    IF items = <<>> THEN <<>>
    ELSE InsertSorted(SortEntries(SubSeq(items, 1, Len(items) - 1)), items[Len(items)])

\* _getSortedCallbacks(hooks): hooks.sort(...) sorts the stored array in
\* place and returns it; .map(hook => hook.callback) is a fresh array.  A
\* value that is no array has no sort method: TypeError.
getSortedCallbacks(hooks) ==
    IF hooks.kind = "array"
    THEN LET sorted == SortEntries(hooks.items) IN
         [err |-> NoError, hooks |-> Arr(sorted),
          callbacks |-> [i \in 1..Len(sorted) |-> sorted[i].callback]]
    ELSE [err |-> TypeError, hooks |-> hooks, callbacks |-> <<>>]

(***************************************************************************)
(* The bodies of the registry's methods, as functions of one store.        *)
(***************************************************************************)
\* A registration that deduplicates: a callback the tag already holds is not
\* pushed again.
RegisteredDeduplicated(store, tag, callback, priority) ==
    LET slot == IF Truthy(store[tag]) THEN store[tag] ELSE Arr(<<>>) IN
    IF slot.kind = "array"
    THEN [err |-> NoError,
          store |-> [store EXCEPT ![tag] =
                        IF \E i \in 1..Len(slot.items) : slot.items[i].callback = callback
                        THEN slot
                        ELSE Arr(Append(slot.items, [priority |-> priority, callback |-> callback]))]]
    ELSE [err |-> TypeError, store |-> [store EXCEPT ![tag] = slot]]

\* addAction / addFilter: store[tag] = store[tag] || []; store[tag].push(entry).
\* An inherited function is truthy, is assigned back, and has no push.
Registered(store, tag, callback, priority) ==
    LET slot == IF Truthy(store[tag]) THEN store[tag] ELSE Arr(<<>>) IN
    IF slot.kind = "array"
    THEN [err |-> NoError,
          store |-> [store EXCEPT ![tag] =
                        Arr(Append(slot.items, [priority |-> priority, callback |-> callback]))]]
    ELSE [err |-> TypeError, store |-> [store EXCEPT ![tag] = slot]]

\* A removal that deletes the first match only.
RECURSIVE WithoutFirst(_, _)
WithoutFirst(items, callback) ==
    IF items = <<>> THEN <<>>
    ELSE IF items[1].callback = callback
         THEN Tail(items)
         ELSE <<items[1]>> \o WithoutFirst(Tail(items), callback)

\* hooks.filter(entry => entry.callback !== callback)
RECURSIVE Without(_, _)
Without(items, callback) ==
    IF items = <<>> THEN <<>>
    ELSE IF items[1].callback # callback
         THEN <<items[1]>> \o Without(Tail(items), callback)
         ELSE Without(Tail(items), callback)

\* A removal whose filter predicate is inverted: it keeps the matches.
UnregisteredKeepingMatches(store, tag, callback) ==
    IF ~Truthy(store[tag]) THEN [err |-> NoError, store |-> store]
    ELSE IF store[tag].kind = "array"
         THEN [err |-> NoError,
               store |-> [store EXCEPT ![tag] =
                             Arr(SelectSeq(store[tag].items,
                                           LAMBDA e : e.callback = callback))]]
         ELSE [err |-> TypeError, store |-> store]

\* A removal that deletes the callback's entries under every tag.
UnregisteredEverywhere(store, tag, callback) ==
    IF ~Truthy(store[tag]) THEN [err |-> NoError, store |-> store]
    ELSE IF store[tag].kind = "array"
         THEN [err |-> NoError,
               store |-> [t \in DOMAIN store |->
                             IF store[t].kind = "array"
                             THEN Arr(Without(store[t].items, callback))
                             ELSE store[t]]]
         ELSE [err |-> TypeError, store |-> store]

\* removeAction / removeFilter: if (!store[tag]) return;
\* store[tag] = store[tag].filter(...).  An inherited function has no filter.
Unregistered(store, tag, callback) ==
    IF ~Truthy(store[tag]) THEN [err |-> NoError, store |-> store]
    ELSE IF store[tag].kind = "array"
         THEN [err |-> NoError,
               store |-> [store EXCEPT ![tag] = Arr(Without(store[tag].items, callback))]]
         ELSE [err |-> TypeError, store |-> store]

\* hasAction / hasFilter: !!store[tag] && store[tag].length > 0
Has(store, tag) == Truthy(store[tag]) /\ store[tag].length > 0


\* A dispatch that iterates the sorted list but leaves the stored array in
\* the reverse of it.
DispatchedStoringReversed(store, tag) ==
    IF ~Truthy(store[tag])
    THEN [status |-> "absent", err |-> NoError, store |-> store, callbacks |-> <<>>]
    ELSE LET g == getSortedCallbacks(store[tag]) IN
         IF g.err # NoError
         THEN [status |-> "threw", err |-> g.err, store |-> store, callbacks |-> <<>>]
         ELSE [status |-> "list", err |-> NoError,
               store |-> [store EXCEPT ![tag] =
                             Arr([i \in 1..Len(g.hooks.items) |->
                                     g.hooks.items[Len(g.hooks.items) + 1 - i]])],
               callbacks |-> g.callbacks]

\* The first lines of doAction / applyFilters: if (!store[tag]) return;
\* const list = this._getSortedCallbacks(store[tag]);
Dispatched(store, tag) ==
    IF ~Truthy(store[tag])
    THEN [status |-> "absent", err |-> NoError, store |-> store, callbacks |-> <<>>]
    ELSE LET g == getSortedCallbacks(store[tag]) IN
         IF g.err # NoError
         THEN [status |-> "threw", err |-> g.err, store |-> store, callbacks |-> <<>>]
         ELSE [status |-> "list", err |-> NoError,
               store |-> [store EXCEPT ![tag] = g.hooks], callbacks |-> g.callbacks]

(***************************************************************************)
(* State.                                                                  *)
(*   actions, filters   this.actions, this.filters                         *)
(*   stack              the dispatches in progress, innermost last: the    *)
(*                      array each forEach iterates, how many of its       *)
(*                      callbacks have returned, the value being filtered  *)
(*   result             how the caller's latest call ended                 *)
(*   log                the callbacks invoked since the caller's latest    *)
(*                      call began, with the depth of the dispatch         *)
(*   regActions,        history: per tag, the entries registered and not   *)
(*   regFilters         removed since, in registration order, each with    *)
(*                      who registered it                                  *)
(*   call               history: the caller's latest call if it is a       *)
(*                      dispatch or a removal, with the registrations of   *)
(*                      its tag (a removal: of its callback under its tag) *)
(*                      when it began                                      *)
(***************************************************************************)
VARIABLES actions, filters, stack, result, log, regActions, regFilters, call

vars == <<actions, filters, stack, result, log, regActions, regFilters, call>>

NoCall == [kind |-> "none", tag |-> "", arg |-> 0, options |-> 0, reg |-> <<>>]
Call(kind, tag, arg, options, reg) ==
    [kind |-> kind, tag |-> tag, arg |-> arg, options |-> options, reg |-> reg]

Outcome(op, err, ret) ==
    IF err = NoError
    THEN [op |-> op, outcome |-> "returned", err |-> NoError, ret |-> ret]
    ELSE [op |-> op, outcome |-> "threw", err |-> err, ret |-> RetUndefined]
Running(op) == [op |-> op, outcome |-> "running", err |-> NoError, ret |-> RetUndefined]

RECURSIVE SumLengths(_, _)
SumLengths(store, tags) ==
    IF tags = {} THEN 0
    ELSE LET t == CHOOSE u \in tags : TRUE IN
         Len(store[t].items) + SumLengths(store, tags \ {t})
TotalEntries == SumLengths(actions, DOMAIN actions) + SumLengths(filters, DOMAIN filters)

CountOf(callbacks, callback) ==
    Cardinality({i \in 1..Len(callbacks) : callbacks[i] = callback})

\* History: the registrations of a tag.
RegAppend(reg, tag, callback, priority, by) ==
    [reg EXCEPT ![tag] = Append(@, [priority |-> priority, callback |-> callback, by |-> by])]
RegOf(reg, tag, callback) == SelectSeq(reg[tag], LAMBDA e : e.callback = callback)
RegRemove(reg, tag, callback) ==
    [reg EXCEPT ![tag] = SelectSeq(@, LAMBDA e : e.callback # callback)]

\* The priority argument of addAction / addFilter: given, or left out.
PriorityArgs == {[given |-> TRUE, n |-> p] : p \in Priorities} \cup {[given |-> FALSE, n |-> 0]}
\* A default of 0 in place of 10: (tag, callback, priority = 0).
EffectivePriorityZero(priority) == IF priority.given THEN priority.n ELSE 0
\* (tag, callback, priority = 10)
EffectivePriority(priority) == IF priority.given THEN priority.n ELSE DefaultPriority

Init ==
    /\ actions = EmptyObject
    /\ filters = EmptyObject
    /\ stack = <<>>
    /\ result = Outcome("new", NoError, RetUndefined)
    /\ log = <<>>
    /\ regActions = [t \in Tags |-> <<>>]
    /\ regFilters = [t \in Tags |-> <<>>]
    /\ call = NoCall

(***************************************************************************)
(* The caller's calls.  The code is synchronous: a call begins only when   *)
(* no dispatch is in progress (calls made by callbacks are below).         *)
(***************************************************************************)
addAction(tag, callback, priority) ==
    /\ stack = <<>>
    /\ TotalEntries < MaxEntries
    /\ LET p == EffectivePriority(priority)
           r == Registered(actions, tag, callback, p) IN
       /\ actions' = r.store
       /\ regActions' = IF r.err = NoError
                        THEN RegAppend(regActions, tag, callback, p, "caller")
                        ELSE regActions
       /\ result' = Outcome("addAction", r.err, RetUndefined)
    /\ log' = <<>>
    /\ call' = NoCall
    /\ UNCHANGED <<filters, regFilters, stack>>

addFilter(tag, callback, priority) ==
    /\ stack = <<>>
    /\ TotalEntries < MaxEntries
    /\ LET p == EffectivePriority(priority)
           r == Registered(filters, tag, callback, p) IN
       /\ filters' = r.store
       /\ regFilters' = IF r.err = NoError
                        THEN RegAppend(regFilters, tag, callback, p, "caller")
                        ELSE regFilters
       /\ result' = Outcome("addFilter", r.err, RetUndefined)
    /\ log' = <<>>
    /\ call' = NoCall
    /\ UNCHANGED <<actions, regActions, stack>>

removeAction(tag, callback) ==
    /\ stack = <<>>
    /\ LET r == Unregistered(actions, tag, callback) IN
       /\ actions' = r.store
       /\ regActions' = IF r.err = NoError
                        THEN RegRemove(regActions, tag, callback)
                        ELSE regActions
       /\ result' = Outcome("removeAction", r.err, RetUndefined)
    /\ log' = <<>>
    /\ call' = Call("removeAction", tag, 0, 0, RegOf(regActions, tag, callback))
    /\ UNCHANGED <<filters, regFilters, stack>>

removeFilter(tag, callback) ==
    /\ stack = <<>>
    /\ LET r == Unregistered(filters, tag, callback) IN
       /\ filters' = r.store
       /\ regFilters' = IF r.err = NoError
                        THEN RegRemove(regFilters, tag, callback)
                        ELSE regFilters
       /\ result' = Outcome("removeFilter", r.err, RetUndefined)
    /\ log' = <<>>
    /\ call' = Call("removeFilter", tag, 0, 0, RegOf(regFilters, tag, callback))
    /\ UNCHANGED <<actions, regActions, stack>>

hasAction(tag) ==
    /\ stack = <<>>
    /\ result' = Outcome("hasAction", NoError, RetBool(Has(actions, tag)))
    /\ log' = <<>>
    /\ call' = NoCall
    /\ UNCHANGED <<actions, filters, regActions, regFilters, stack>>

hasFilter(tag) ==
    /\ stack = <<>>
    /\ result' = Outcome("hasFilter", NoError, RetBool(Has(filters, tag)))
    /\ log' = <<>>
    /\ call' = NoCall
    /\ UNCHANGED <<actions, filters, regActions, regFilters, stack>>


(***************************************************************************)
(* Dispatch.  A frame is one doAction / applyFilters call that reached its *)
(* forEach: callbacks is the array .map() returned, done the number of its *)
(* callbacks that have returned, value the applyFilters value so far.      *)
(***************************************************************************)
NewFrame(kind, tag, callbacks, value, options) ==
    [kind |-> kind, tag |-> tag, callbacks |-> callbacks, done |-> 0,
     value |-> value, options |-> options]

\* A forEach over the stored array itself, which sees what callbacks add to
\* it and remove from it during the pass.
IterationListLive(frame, acts, filts) ==
    LET hooks == IF frame.kind = "action" THEN acts[frame.tag] ELSE filts[frame.tag] IN
    [i \in 1..Len(hooks.items) |-> hooks.items[i].callback]

\* The array forEach iterates: the one _getSortedCallbacks returned, which
\* no later change of the store reaches.
IterationList(frame, acts, filts) == frame.callbacks

\* The innermost frame's current callback has returned.
Advance(stk) == [stk EXCEPT ![Len(stk)].done = @ + 1]

\* A dispatch that catches what a callback throws and goes on with the
\* next callback.
AfterThrowSwallowed(stk) == [stk EXCEPT ![Len(stk)].done = @ + 1]

\* A callback threw.  Neither doAction / applyFilters nor the callbacks
\* catch: the error leaves every dispatch in progress.
AfterThrow(stk) == <<>>

doAction(tag, options) ==
    /\ stack = <<>>
    /\ LET d == Dispatched(actions, tag) IN
       \* bound: the entries this pass can add still fit
       /\ TotalEntries + CountOf(d.callbacks, "aAdd") <= MaxEntries
       /\ actions' = d.store
       /\ IF d.status = "list"
          THEN /\ stack' = <<NewFrame("action", tag, d.callbacks, 0, options)>>
               /\ result' = Running("doAction")
          ELSE /\ stack' = <<>>
               /\ result' = Outcome("doAction", d.err, RetUndefined)
    /\ log' = <<>>
    /\ call' = Call("doAction", tag, 0, options, regActions[tag])
    /\ UNCHANGED <<filters, regActions, regFilters>>

applyFilters(tag, value, options) ==
    /\ stack = <<>>
    /\ LET d == Dispatched(filters, tag) IN
       /\ filters' = d.store
       /\ IF d.status = "list"
          THEN /\ stack' = <<NewFrame("filter", tag, d.callbacks, value, options)>>
               /\ result' = Running("applyFilters")
          ELSE /\ stack' = <<>>
               /\ result' = Outcome("applyFilters", d.err, RetNum(value))
    /\ log' = <<>>
    /\ call' = Call("applyFilters", tag, value, options, regFilters[tag])
    /\ UNCHANGED <<actions, regActions, regFilters>>

\* The callback forEach invokes next, if any.
Pending == stack # <<>> /\ stack[Len(stack)].done
                              < Len(IterationList(stack[Len(stack)], actions, filters))
Current == IterationList(stack[Len(stack)], actions, filters)[stack[Len(stack)].done + 1]
Invoked(callback) == Append(log, [callback |-> callback, depth |-> Len(stack)])

\* A forEach body that calls the filter and drops what it returns.
InvokePlainValueDropped ==
    /\ Pending
    /\ Current \in {"a1", "f1", "f2"}
    /\ stack' = Advance(stack)
    /\ log' = Invoked(Current)
    /\ UNCHANGED <<actions, filters, result, regActions, regFilters, call>>

\* a1, f1, f2: the callback returns; a filter's return value replaces value.
InvokePlain ==
    /\ Pending
    /\ Current \in {"a1", "f1", "f2"}
    /\ LET top == stack[Len(stack)] IN
       stack' = [Advance(stack) EXCEPT ![Len(stack)].value =
                    IF top.kind = "filter"
                    THEN FilterResult(Current, top.value, top.options)
                    ELSE top.value]
    /\ log' = Invoked(Current)
    /\ UNCHANGED <<actions, filters, result, regActions, regFilters, call>>

\* An aAdd whose new entry joins the pass in progress: the callback is also
\* appended to the array the innermost forEach iterates.
InvokeAddJoiningPass ==
    /\ Pending
    /\ Current = "aAdd"
    /\ LET top == stack[Len(stack)]
           r == Registered(actions, ReentryTag, "a1", top.options) IN
       /\ actions' = r.store
       /\ regActions' = IF r.err = NoError
                        THEN RegAppend(regActions, ReentryTag, "a1", top.options, "callback")
                        ELSE regActions
       /\ stack' = IF r.err = NoError
                   THEN Advance([stack EXCEPT ![Len(stack)].callbacks = Append(@, "a1")])
                   ELSE AfterThrow(stack)
       /\ result' = IF r.err = NoError THEN result ELSE Outcome(result.op, r.err, RetUndefined)
    /\ log' = Invoked(Current)
    /\ UNCHANGED <<filters, regFilters, call>>

\* aAdd: hooks.addAction(ReentryTag, a1, options)
InvokeAdd ==
    /\ Pending
    /\ Current = "aAdd"
    /\ LET top == stack[Len(stack)]
           r == Registered(actions, ReentryTag, "a1", top.options) IN
       /\ actions' = r.store
       /\ regActions' = IF r.err = NoError
                        THEN RegAppend(regActions, ReentryTag, "a1", top.options, "callback")
                        ELSE regActions
       /\ stack' = IF r.err = NoError THEN Advance(stack) ELSE AfterThrow(stack)
       /\ result' = IF r.err = NoError THEN result ELSE Outcome(result.op, r.err, RetUndefined)
    /\ log' = Invoked(Current)
    /\ UNCHANGED <<filters, regFilters, call>>

\* A removeAction that also takes the removed callback out of the arrays the
\* dispatches in progress still have to iterate.
RECURSIVE PendingWithout(_, _, _)
PendingWithout(callbacks, from, callback) ==
    IF from > Len(callbacks) THEN callbacks
    ELSE IF callbacks[from] = callback
         THEN PendingWithout(SubSeq(callbacks, 1, from - 1)
                                \o SubSeq(callbacks, from + 1, Len(callbacks)),
                             from, callback)
         ELSE PendingWithout(callbacks, from + 1, callback)

InvokeRemoveReachingPass ==
    /\ Pending
    /\ Current = "aRm"
    /\ LET r == Unregistered(actions, ReentryTag, "a1") IN
       /\ actions' = r.store
       /\ regActions' = IF r.err = NoError
                        THEN RegRemove(regActions, ReentryTag, "a1")
                        ELSE regActions
       /\ stack' = IF r.err = NoError
                   THEN Advance([i \in 1..Len(stack) |->
                            [stack[i] EXCEPT !.callbacks =
                                PendingWithout(@, stack[i].done + 2, "a1")]])
                   ELSE AfterThrow(stack)
       /\ result' = IF r.err = NoError THEN result ELSE Outcome(result.op, r.err, RetUndefined)
    /\ log' = Invoked(Current)
    /\ UNCHANGED <<filters, regFilters, call>>

\* aRm: hooks.removeAction(ReentryTag, a1)
InvokeRemove ==
    /\ Pending
    /\ Current = "aRm"
    /\ LET r == Unregistered(actions, ReentryTag, "a1") IN
       /\ actions' = r.store
       /\ regActions' = IF r.err = NoError
                        THEN RegRemove(regActions, ReentryTag, "a1")
                        ELSE regActions
       /\ stack' = IF r.err = NoError THEN Advance(stack) ELSE AfterThrow(stack)
       /\ result' = IF r.err = NoError THEN result ELSE Outcome(result.op, r.err, RetUndefined)
    /\ log' = Invoked(Current)
    /\ UNCHANGED <<filters, regFilters, call>>

\* aThrow, fThrow: the callback throws.
InvokeThrow ==
    /\ Pending
    /\ Current \in {"aThrow", "fThrow"}
    /\ stack' = AfterThrow(stack)
    /\ result' = IF stack' = <<>> THEN Outcome(result.op, ErrorOf(Current), RetUndefined)
                 ELSE result
    /\ log' = Invoked(Current)
    /\ UNCHANGED <<actions, filters, regActions, regFilters, call>>

\* aNest: hooks.applyFilters(ReentryTag, 0, options), its result dropped.
InvokeNest ==
    /\ Pending
    /\ Current = "aNest"
    /\ LET top == stack[Len(stack)]
           d == Dispatched(filters, ReentryTag) IN
       /\ filters' = d.store
       /\ stack' = CASE d.status = "list" ->
                          Append(stack, NewFrame("filter", ReentryTag, d.callbacks, 0, top.options))
                     [] d.status = "absent" -> Advance(stack)
                     [] OTHER -> AfterThrow(stack)
       /\ result' = IF d.status = "threw" THEN Outcome(result.op, d.err, RetUndefined)
                    ELSE result
    /\ log' = Invoked(Current)
    /\ UNCHANGED <<actions, regActions, regFilters, call>>

\* forEach has no callback left: the innermost dispatch returns, to the
\* caller or to the callback that made it (which then returns itself).
Return ==
    /\ stack # <<>>
    /\ ~Pending
    /\ LET top == stack[Len(stack)] IN
       IF Len(stack) = 1
       THEN /\ stack' = <<>>
            /\ result' = Outcome(result.op, NoError,
                                 IF top.kind = "filter" THEN RetNum(top.value)
                                 ELSE RetUndefined)
       ELSE /\ stack' = Advance(SubSeq(stack, 1, Len(stack) - 1))
            /\ result' = result
    /\ UNCHANGED <<actions, filters, log, regActions, regFilters, call>>

Next ==
    \/ \E t \in Tags, c \in ActionCallbacks, p \in PriorityArgs : addAction(t, c, p)
    \/ \E t \in Tags, c \in FilterCallbacks, p \in PriorityArgs : addFilter(t, c, p)
    \/ \E t \in Tags, c \in ActionCallbacks : removeAction(t, c)
    \/ \E t \in Tags, c \in FilterCallbacks : removeFilter(t, c)
    \/ \E t \in Tags : hasAction(t)
    \/ \E t \in Tags : hasFilter(t)
    \/ \E t \in Tags, o \in Options : doAction(t, o)
    \/ \E t \in Tags, v \in Values, o \in Options : applyFilters(t, v, o)
    \/ InvokePlain
    \/ InvokeAdd
    \/ InvokeRemove
    \/ InvokeThrow
    \/ InvokeNest
    \/ Return

Spec == Init /\ [][Next]_vars


(***************************************************************************)
(* Vocabulary of the properties.                                           *)
(***************************************************************************)
CallbacksOf(entries) == [i \in 1..Len(entries) |-> entries[i].callback]
\* The callbacks invoked, in order, by the dispatch at this depth (1: the
\* caller's own dispatch) since the caller's latest call began.
InvokedAt(depth) == CallbacksOf(SelectSeq(log, LAMBDA e : e.depth = depth))
IsPrefix(s, t) == Len(s) <= Len(t) /\ \A i \in 1..Len(s) : s[i] = t[i]
Count(entries, callback) ==
    Cardinality({i \in 1..Len(entries) : entries[i].callback = callback})

\* Entries in ascending priority; entries of one priority in the order
\* they have in `entries`.
RECURSIVE Ascending(_, _)
Ascending(entries, priorities) ==
    IF priorities = {} THEN <<>>
    ELSE LET p == CHOOSE q \in priorities : \A r \in priorities : q <= r IN
         SelectSeq(entries, LAMBDA e : e.priority = p)
             \o Ascending(entries, priorities \ {p})
PriorityOrder(entries) ==
    Ascending(entries, {entries[i].priority : i \in 1..Len(entries)})

\* callbacks[n](... callbacks[1](value, options) ..., options)
RECURSIVE FoldFilters(_, _, _)
FoldFilters(callbacks, value, options) ==
    IF Len(callbacks) = 0 THEN value
    ELSE FoldFilters([i \in 1..(Len(callbacks) - 1) |-> callbacks[i + 1]],
                     FilterResult(callbacks[1], value, options), options)

Dispatching == call.kind \in {"doAction", "applyFilters"}

(***************************************************************************)
(* C1: the callbacks a doAction(tag) invokes are those of the tag's        *)
(* registrations taken in non-decreasing priority, registrations of equal  *)
(* priority in the order they were registered: at every moment of the pass *)
(* the callbacks invoked so far are the first ones of that order.          *)
(***************************************************************************)
C1_PriorityOrder ==
    call.kind = "doAction" =>
        IsPrefix(InvokedAt(1), CallbacksOf(PriorityOrder(call.reg)))

\* A completed pass over three registrations made in the order priority 10,
\* 5, 10, the two of priority 10 with different callbacks.
C1_Witness ==
    /\ call.kind = "doAction"
    /\ result.outcome = "returned"
    /\ Len(call.reg) = 3
    /\ Len(InvokedAt(1)) = 3
    /\ call.reg[1].priority = 10
    /\ call.reg[2].priority = 5
    /\ call.reg[3].priority = 10
    /\ call.reg[1].callback # call.reg[3].callback

(***************************************************************************)
(* C2: an applyFilters(tag, value, options) that returns, returns the      *)
(* left-to-right fold of the tag's filters in ascending priority (ties in  *)
(* registration order), each filter receiving the previous one's return    *)
(* value and the same options.                                             *)
(***************************************************************************)
C2_FilterFold ==
    (call.kind = "applyFilters" /\ result.outcome = "returned") =>
        result.ret = RetNum(FoldFilters(CallbacksOf(PriorityOrder(call.reg)),
                                        call.arg, call.options))

\* f2 registered first at priority 10, f1 second at priority 5, value 1:
\* the result is f2(f1(1)), which f1(f2(1)) is not.
C2_Witness ==
    /\ call.kind = "applyFilters"
    /\ result.outcome = "returned"
    /\ call.arg = 1
    /\ Len(call.reg) = 2
    /\ call.reg[1].callback = "f2" /\ call.reg[1].priority = 10
    /\ call.reg[2].callback = "f1" /\ call.reg[2].priority = 5
    /\ result.ret = RetNum((1 + call.options) * 2)
    /\ result.ret # RetNum(1 * 2 + call.options)

(***************************************************************************)
(* C3: applyFilters(tag, v) on a tag with no registered filter (none ever  *)
(* added, or all removed) returns v.                                       *)
(***************************************************************************)
C3_IdentityWithoutFilters ==
    (call.kind = "applyFilters" /\ call.reg = <<>> /\ result.outcome # "running") =>
        (result.outcome = "returned" /\ result.ret = RetNum(call.arg))

(***************************************************************************)
(* C4: a dispatch invokes only callbacks registered under its tag when it  *)
(* began: a callback that was removed from the tag (removal deletes all    *)
(* its registrations) and not registered again since is not invoked by     *)
(* doAction, nor applied by applyFilters.                                  *)
(***************************************************************************)
C4_RemovedNotInvoked ==
    Dispatching =>
        \A i \in 1..Len(InvokedAt(1)) : Count(call.reg, InvokedAt(1)[i]) > 0

\* doAction on a tag whose array exists and is empty (every registration
\* was removed) has returned and invoked nothing.
C4_Witness ==
    /\ call.kind = "doAction"
    /\ result.outcome = "returned"
    /\ actions[call.tag] = Arr(<<>>)
    /\ call.reg = <<>>
    /\ log = <<>>

(***************************************************************************)
(* C5: hasAction(tag) is true iff a registration of an action under tag    *)
(* has not been removed, and hasFilter(tag) likewise for filters.          *)
(***************************************************************************)
C5_HasIffRegistered ==
    \A t \in Tags :
        /\ Has(actions, t) <=> (regActions[t] # <<>>)
        /\ Has(filters, t) <=> (regFilters[t] # <<>>)


(***************************************************************************)
(* C6: removeAction(tag, cb) / removeFilter(tag, cb) that returns leaves   *)
(* in the tag's array exactly the entries whose callback is not cb, with   *)
(* their priorities and in their previous relative order, whatever the     *)
(* priorities and the number of cb's entries; the same holds of a          *)
(* removeAction a callback makes during a dispatch.                        *)
(***************************************************************************)
OthersKept(before, after, callback) ==
    /\ after.kind = "array"
    /\ after.items = SelectSeq(before.items, LAMBDA e : e.callback # callback)

C6_RemoveDeletesAllMatches ==
    [][/\ call'.kind = "removeAction" =>
            \A c \in ActionCallbacks :
                (/\ removeAction(call'.tag, c)
                 /\ actions[call'.tag].kind = "array"
                 /\ result'.outcome = "returned")
                    => OthersKept(actions[call'.tag], actions'[call'.tag], c)
       /\ call'.kind = "removeFilter" =>
            \A c \in FilterCallbacks :
                (/\ removeFilter(call'.tag, c)
                 /\ filters[call'.tag].kind = "array"
                 /\ result'.outcome = "returned")
                    => OthersKept(filters[call'.tag], filters'[call'.tag], c)
       /\ (InvokeRemove /\ actions[ReentryTag].kind = "array" /\ stack' # <<>>)
                => OthersKept(actions[ReentryTag], actions'[ReentryTag], "a1")]_vars

\* One removeAction has returned that deleted two registrations of its
\* callback, made with different priorities, and kept another entry.
C6_Witness ==
    /\ call.kind = "removeAction"
    /\ result.outcome = "returned"
    /\ Len(call.reg) = 2
    /\ call.reg[1].priority # call.reg[2].priority
    /\ Len(actions[call.tag].items) = 1
    /\ actions[call.tag].items[1].callback # call.reg[1].callback

(***************************************************************************)
(* C7: an entry a callback registers under the tag being dispatched is not *)
(* invoked in that pass, whatever its priority: a pass invokes each        *)
(* callback at most as often as it was registered when the pass began.     *)
(* A pass that returns has invoked every callback exactly that often, the  *)
(* entries callbacks registered during earlier passes included.            *)
(***************************************************************************)
C7_AddedDuringPassWaits ==
    call.kind = "doAction" =>
        \A c \in ActionCallbacks :
            /\ Count(log, c) <= Count(call.reg, c)
            /\ result.outcome = "returned" => Count(log, c) = Count(call.reg, c)

\* A returned pass over the reentry tag that began with aAdd at priority 10
\* and an a1 which aAdd registered, at priority 5, in an earlier pass: a1
\* was invoked once, and the a1 that aAdd registered in this pass, again at
\* priority 5, was not.
C7_Witness ==
    /\ call.kind = "doAction"
    /\ call.tag = ReentryTag
    /\ call.options = 5
    /\ result.outcome = "returned"
    /\ Len(call.reg) = 2
    /\ \E i \in 1..2 : call.reg[i] = [priority |-> 10, callback |-> "aAdd", by |-> "caller"]
    /\ \E i \in 1..2 : call.reg[i] = [priority |-> 5, callback |-> "a1", by |-> "callback"]
    /\ Count(log, "aAdd") = 1
    /\ Count(log, "a1") = 1
    /\ Count(regActions[ReentryTag], "a1") = 2

(***************************************************************************)
(* C8: when the callback at position N of a dispatch throws, the callbacks *)
(* at positions 1..N-1 have each been invoked once, in order, no callback  *)
(* is invoked afterwards (of that dispatch or of one that encloses it),    *)
(* and the caller's call ends with that same error.                        *)
(***************************************************************************)
Throwers == {"aThrow", "fThrow"}

C8_ThrowAbortsDispatch ==
    /\ \A i \in 1..Len(log) :
          log[i].callback \in Throwers =>
              /\ i = Len(log)
              /\ stack = <<>>
              /\ result.outcome = "threw"
              /\ result.err = ErrorOf(log[i].callback)
    /\ (Dispatching /\ result.outcome = "threw" /\ result.err # TypeError) =>
          /\ log # <<>>
          /\ log[Len(log)].callback \in Throwers
          /\ IsPrefix(InvokedAt(1), CallbacksOf(PriorityOrder(call.reg)))

\* aThrow threw at position 2 of 3: one callback was invoked before it,
\* the third was not invoked, and doAction ended with aThrow's error.
C8_Witness ==
    /\ call.kind = "doAction"
    /\ result.outcome = "threw"
    /\ result.err = "ErrorA"
    /\ Len(call.reg) = 3
    /\ Len(log) = 2
    /\ log[1].callback # "aThrow"
    /\ log[2].callback = "aThrow"

(***************************************************************************)
(* C9: doAction on a tag with no registration invokes nothing and raises   *)
(* no error; removeAction / removeFilter on a tag without a sequence, or   *)
(* with a callback that matches no entry, raises no error and leaves every *)
(* entry of both stores as it was.                                         *)
(***************************************************************************)
EntriesOf(store) == [t \in Tags |-> store[t].items]

C9_NothingToDoIsNoError ==
    [][/\ \A t \in Tags, o \in Options :
            (doAction(t, o) /\ regActions[t] = <<>>)
                => /\ result'.outcome # "threw"
                   /\ (stack' = <<>> \/ Len(stack'[1].callbacks) = 0)
       /\ \A t \in Tags, c \in ActionCallbacks :
            (removeAction(t, c) /\ Count(regActions[t], c) = 0)
                => /\ result'.outcome = "returned"
                   /\ EntriesOf(actions') = EntriesOf(actions)
                   /\ EntriesOf(filters') = EntriesOf(filters)
       /\ \A t \in Tags, c \in FilterCallbacks :
            (removeFilter(t, c) /\ Count(regFilters[t], c) = 0)
                => /\ result'.outcome = "returned"
                   /\ EntriesOf(actions') = EntriesOf(actions)
                   /\ EntriesOf(filters') = EntriesOf(filters)]_vars

(***************************************************************************)
(* C10: every string is usable as a tag: while a tag has never been        *)
(* registered in a store, hasAction / hasFilter of it return false without *)
(* throwing, and addAction / addFilter on it append one entry without      *)
(* throwing.                                                               *)
(***************************************************************************)
FirstEntry(before, after, callback, priority) ==
    /\ before.kind # "array"
    /\ after = Arr(<<[priority |-> EffectivePriority(priority), callback |-> callback]>>)

C10_AnyStringIsATag ==
    [][/\ \A t \in Tags :
            (hasAction(t) /\ actions[t].kind # "array")
                => (result'.outcome = "returned" /\ result'.ret = RetBool(FALSE))
       /\ \A t \in Tags :
            (hasFilter(t) /\ filters[t].kind # "array")
                => (result'.outcome = "returned" /\ result'.ret = RetBool(FALSE))
       /\ \A t \in Tags, c \in ActionCallbacks, p \in PriorityArgs :
            (addAction(t, c, p) /\ actions[t].kind # "array")
                => (result'.outcome = "returned" /\ FirstEntry(actions[t], actions'[t], c, p))
       /\ \A t \in Tags, c \in FilterCallbacks, p \in PriorityArgs :
            (addFilter(t, c, p) /\ filters[t].kind # "array")
                => (result'.outcome = "returned" /\ FirstEntry(filters[t], filters'[t], c, p))]_vars

(***************************************************************************)
(* C11: registration never deduplicates: a tag's array holds one entry per *)
(* registration of the tag that was not removed since (a callback          *)
(* registered k times, with equal or different priorities, has k entries), *)
(* and a doAction(tag) that returns has invoked each callback exactly as   *)
(* often as the tag held it when the pass began.                           *)
(***************************************************************************)
Copies(items, callback, priority) ==
    Cardinality({i \in 1..Len(items) :
                    items[i].callback = callback /\ items[i].priority = priority})

OneEntryPerRegistration(store, reg, callbacks) ==
    \A t \in Tags :
        store[t].kind = "array" =>
            /\ Len(store[t].items) = Len(reg[t])
            /\ \A c \in callbacks, p \in Priorities :
                   Copies(store[t].items, c, p) = Copies(reg[t], c, p)

C11_NoDeduplication ==
    /\ OneEntryPerRegistration(actions, regActions, ActionCallbacks)
    /\ OneEntryPerRegistration(filters, regFilters, FilterCallbacks)
    /\ (call.kind = "doAction" /\ result.outcome = "returned") =>
          \A c \in ActionCallbacks : CountOf(InvokedAt(1), c) = Count(call.reg, c)

\* a1 was registered three times under one tag, with priorities 10, 5, 10;
\* the array holds three entries and a returned doAction invoked a1 three
\* times.
C11_Witness ==
    /\ call.kind = "doAction"
    /\ result.outcome = "returned"
    /\ CallbacksOf(call.reg) = <<"a1", "a1", "a1">>
    /\ call.reg[1].priority = 10 /\ call.reg[2].priority = 5 /\ call.reg[3].priority = 10
    /\ Len(actions[call.tag].items) = 3
    /\ InvokedAt(1) = <<"a1", "a1", "a1">>

(***************************************************************************)
(* Callers that leave the priority out.  They register a1 and f1 with two  *)
(* arguments only, addAction(tag, a1) and addFilter(tag, f1), and every    *)
(* other callback with a priority below, at or above 10, all under the     *)
(* reentry tag; no callback registers entries.                             *)
(***************************************************************************)
PrioritiesAround == {5, 10, 15}
Omitted == [given |-> FALSE, n |-> 0]
Given(p) == [given |-> TRUE, n |-> p]
TwoArgumentCallbacks == {"a1", "f1"}

NextDefault ==
    \/ addAction(ReentryTag, "a1", Omitted)
    \/ \E c \in {"aRm", "aNest", "aThrow"}, p \in PrioritiesAround :
           addAction(ReentryTag, c, Given(p))
    \/ addFilter(ReentryTag, "f1", Omitted)
    \/ \E c \in {"f2", "fThrow"}, p \in PrioritiesAround :
           addFilter(ReentryTag, c, Given(p))
    \/ \E c \in ActionCallbacks : removeAction(ReentryTag, c)
    \/ \E c \in FilterCallbacks : removeFilter(ReentryTag, c)
    \/ \E o \in Options : doAction(ReentryTag, o)
    \/ \E v \in Values, o \in Options : applyFilters(ReentryTag, v, o)
    \/ InvokePlain
    \/ InvokeRemove
    \/ InvokeThrow
    \/ InvokeNest
    \/ Return

SpecDefault == Init /\ [][NextDefault]_vars

(***************************************************************************)
(* C12: an addAction / addFilter call without a priority registers the     *)
(* entry with priority 10: the stored entry has priority 10, and a         *)
(* dispatch invokes it after every entry of a priority below 10, before    *)
(* every entry of a priority above 10, and in registration order among     *)
(* the entries registered with priority 10.                                *)
(***************************************************************************)
\* The registrations, those made with two arguments counted as priority 10.
AsTen(reg) ==
    [i \in 1..Len(reg) |->
        IF reg[i].callback \in TwoArgumentCallbacks
        THEN [reg[i] EXCEPT !.priority = 10]
        ELSE reg[i]]

StoredAsTen(store) ==
    \A i \in 1..Len(store[ReentryTag].items) :
        store[ReentryTag].items[i].callback \in TwoArgumentCallbacks
            => store[ReentryTag].items[i].priority = 10

C12_OmittedPriorityIsTen ==
    /\ StoredAsTen(actions)
    /\ StoredAsTen(filters)
    /\ Dispatching =>
          IsPrefix(InvokedAt(1), CallbacksOf(PriorityOrder(AsTen(call.reg))))

\* Registered in this order: aRm with priority 15, a1 without a priority,
\* aNest with priority 5; a returned doAction invoked aNest, a1, aRm.
C12_Witness ==
    /\ call.kind = "doAction"
    /\ result.outcome = "returned"
    /\ Len(call.reg) = 3
    /\ call.reg[1].callback = "aRm" /\ call.reg[1].priority = 15
    /\ call.reg[2].callback = "a1"
    /\ call.reg[3].callback = "aNest" /\ call.reg[3].priority = 5
    /\ InvokedAt(1) = <<"aNest", "a1", "aRm">>

(***************************************************************************)
(* C13: dispatch sorts a copy of the tag's entries, not the stored array:  *)
(* the step in which doAction / applyFilters (the caller's, or the         *)
(* applyFilters a callback makes) takes the list it will iterate leaves    *)
(* both stores as they were, so a tag's array keeps its registration       *)
(* order across a dispatch.                                                *)
(***************************************************************************)
C13_DispatchLeavesStores ==
    [][((\E t \in Tags, o \in Options : doAction(t, o))
          \/ (\E t \in Tags, v \in Values, o \in Options : applyFilters(t, v, o))
          \/ InvokeNest)
        => (actions' = actions /\ filters' = filters)]_vars

(***************************************************************************)
(* C14: a removeAction a callback makes during doAction(tag) for a         *)
(* callback that comes later in the pass does not reach the list being     *)
(* iterated: the pass still invokes every callback the tag held when it    *)
(* began, the removed one included, in priority order; the removal shows   *)
(* in the store, and the doAction(tag) the caller makes next takes a list  *)
(* without the removed callback.                                           *)
(***************************************************************************)
\* The caller's latest call was a doAction of the reentry tag that returned
\* and in which aRm removed a1, no aAdd registering it again afterwards.
RemovedInPass ==
    /\ call.kind = "doAction"
    /\ call.tag = ReentryTag
    /\ result.outcome = "returned"
    /\ \E i \in 1..Len(log) :
          /\ log[i].callback = "aRm"
          /\ \A j \in (i + 1)..Len(log) : log[j].callback # "aAdd"

C14_PassUnaffected ==
    /\ (call.kind = "doAction" /\ call.tag = ReentryTag) =>
          /\ IsPrefix(InvokedAt(1), CallbacksOf(PriorityOrder(call.reg)))
          /\ result.outcome = "returned" =>
                InvokedAt(1) = CallbacksOf(PriorityOrder(call.reg))
    /\ RemovedInPass => Count(actions[ReentryTag].items, "a1") = 0

C14_NextPassWithout ==
    \A o \in Options :
        (RemovedInPass /\ doAction(ReentryTag, o)) =>
            /\ stack' # <<>>
            /\ CountOf(stack'[1].callbacks, "a1") = 0
            /\ CountOf(stack'[1].callbacks, "aRm") > 0

C14_RemovalDuringPass == []C14_PassUnaffected /\ [][C14_NextPassWithout]_vars

\* The tag held a1 at priority 10 and aRm at priority 5: the pass invoked
\* aRm, which removed a1, and then a1; the tag's array now holds aRm alone.
C14_Witness ==
    /\ RemovedInPass
    /\ CallbacksOf(call.reg) = <<"a1", "aRm">>
    /\ call.reg[1].priority = 10 /\ call.reg[2].priority = 5
    /\ InvokedAt(1) = <<"aRm", "a1">>
    /\ CallbacksOf(actions[ReentryTag].items) = <<"aRm">>

(***************************************************************************)
(* Callers that use two ordinary tags, the reentry tag and another one,    *)
(* in both stores.                                                         *)
(***************************************************************************)
OtherTag == "other"
TwoTags == {ReentryTag, OtherTag}

InitTags ==
    /\ actions = [t \in TwoTags |-> ProtoValue(t)]
    /\ filters = [t \in TwoTags |-> ProtoValue(t)]
    /\ stack = <<>>
    /\ result = Outcome("new", NoError, RetUndefined)
    /\ log = <<>>
    /\ regActions = [t \in TwoTags |-> <<>>]
    /\ regFilters = [t \in TwoTags |-> <<>>]
    /\ call = NoCall

\* The callbacks and the options value of these callers.
TwoTagsActions == {"a1", "aAdd"}
TwoTagsFilters == {"f1", "f2"}
TwoTagsOption == 5

NextTags ==
    \/ \E t \in TwoTags, c \in TwoTagsActions, p \in Priorities : addAction(t, c, Given(p))
    \/ \E t \in TwoTags, c \in TwoTagsFilters, p \in Priorities : addFilter(t, c, Given(p))
    \/ \E t \in TwoTags, c \in TwoTagsActions : removeAction(t, c)
    \/ \E t \in TwoTags, c \in TwoTagsFilters : removeFilter(t, c)
    \/ \E t \in TwoTags : doAction(t, TwoTagsOption)
    \/ \E t \in TwoTags, v \in Values : applyFilters(t, v, TwoTagsOption)
    \/ InvokePlain
    \/ InvokeAdd
    \/ Return

SpecTags == InitTags /\ [][NextTags]_vars

(***************************************************************************)
(* C15: the two stores are independent and tags are independent: a call    *)
(* of addAction / removeAction / doAction on a tag changes no filter entry *)
(* and no action entry of another tag, a call of addFilter / removeFilter  *)
(* / applyFilters on a tag no action entry and no filter entry of another  *)
(* tag, the invocation of a callback that does not call the registry       *)
(* changes nothing; so addAction leaves every hasFilter as it was and      *)
(* addFilter every hasAction.                                              *)
(***************************************************************************)
OnlyTag(before, after, tag) ==
    \A u \in DOMAIN before : u # tag => after[u] = before[u]
SameHas(before, after) ==
    \A u \in DOMAIN before : Has(after, u) = Has(before, u)

C15_StoresAndTagsApart ==
    [][/\ (stack = <<>> /\ result'.op \in {"addAction", "removeAction", "doAction"}) =>
            \A t \in TwoTags :
                (\/ /\ result'.op = "addAction"
                    /\ \E c \in TwoTagsActions, p \in Priorities : addAction(t, c, Given(p))
                 \/ /\ result'.op = "removeAction"
                    /\ \E c \in TwoTagsActions : removeAction(t, c)
                 \/ /\ result'.op = "doAction"
                    /\ doAction(t, TwoTagsOption))
                 => /\ filters' = filters
                    /\ OnlyTag(actions, actions', t)
                    /\ SameHas(filters, filters')
       /\ (stack = <<>> /\ result'.op \in {"addFilter", "removeFilter", "applyFilters"}) =>
            \A t \in TwoTags :
                (\/ /\ result'.op = "addFilter"
                    /\ \E c \in TwoTagsFilters, p \in Priorities : addFilter(t, c, Given(p))
                 \/ /\ result'.op = "removeFilter"
                    /\ \E c \in TwoTagsFilters : removeFilter(t, c)
                 \/ /\ result'.op = "applyFilters"
                    /\ \E v \in Values : applyFilters(t, v, TwoTagsOption))
                 => /\ actions' = actions
                    /\ OnlyTag(filters, filters', t)
                    /\ SameHas(actions, actions')
       /\ (stack # <<>> /\ (InvokePlain \/ Return)) =>
            (actions' = actions /\ filters' = filters)]_vars

\* removeAction on the reentry tag has deleted an entry there while the
\* other tag holds an action entry and the reentry tag a filter entry.
C15_Witness ==
    /\ call.kind = "removeAction"
    /\ call.tag = ReentryTag
    /\ result.outcome = "returned"
    /\ Len(call.reg) = 1
    /\ actions[ReentryTag] = Arr(<<>>)
    /\ Len(actions[OtherTag].items) = 1
    /\ actions[OtherTag].items[1].callback = call.reg[1].callback
    /\ Len(filters[ReentryTag].items) = 1
    /\ Has(filters, ReentryTag) /\ ~Has(actions, ReentryTag)

(***************************************************************************)
(* C17: the registry invokes what a reference registry would, one that     *)
(* keeps each tag's entries in registration order (regActions) and stably  *)
(* sorts a fresh copy at every dispatch.  Whatever adds, removes and       *)
(* dispatches came before, by the caller or by callbacks: the list a       *)
(* doAction iterates is the reference's, a doAction that returns has       *)
(* invoked exactly that list, and the stored array of every tag, which     *)
(* earlier dispatches have sorted in place, sorts to the same sequence as  *)
(* the reference's entries.                                                *)
(***************************************************************************)
Entries(reg) ==
    [i \in 1..Len(reg) |-> [priority |-> reg[i].priority, callback |-> reg[i].callback]]
Reference(reg) == SortEntries(Entries(reg))

C17_SameAsReference ==
    /\ \A t \in Tags :
          actions[t].kind = "array" =>
              SortEntries(actions[t].items) = Reference(regActions[t])
    /\ call.kind = "doAction" =>
          /\ stack # <<>> => stack[1].callbacks = CallbacksOf(Reference(call.reg))
          /\ IsPrefix(InvokedAt(1), CallbacksOf(Reference(call.reg)))
          /\ result.outcome = "returned" =>
                InvokedAt(1) = CallbacksOf(Reference(call.reg))

\* Registered in the order a1 at 10, aNest at 10, a1 at 5: a returned
\* doAction invoked a1, a1, aNest, and the stored array, sorted in place by
\* the dispatch, is no longer in registration order.
C17_Witness ==
    /\ call.kind = "doAction"
    /\ result.outcome = "returned"
    /\ Entries(call.reg) = <<[priority |-> 10, callback |-> "a1"],
                             [priority |-> 10, callback |-> "aNest"],
                             [priority |-> 5, callback |-> "a1"]>>
    /\ InvokedAt(1) = <<"a1", "a1", "aNest">>
    /\ regActions[call.tag] = call.reg
    /\ actions[call.tag].items # Entries(regActions[call.tag])
    /\ actions[call.tag].items = Reference(regActions[call.tag])

(***************************************************************************)
(* Callers whose callbacks all return and start no dispatch: a1, aAdd,     *)
(* aRm, f1, f2, all under the reentry tag.  The code is synchronous: a     *)
(* dispatch in progress goes on to its next callback, or returns, without  *)
(* waiting for anything, which is the weak fairness of the pass's steps.   *)
(***************************************************************************)
ReturningActions == {"a1", "aAdd", "aRm"}
ReturningFilters == {"f1", "f2"}

PassStep == InvokePlain \/ InvokeAdd \/ InvokeRemove \/ Return

NextPass ==
    \/ \E c \in ReturningActions, p \in Priorities : addAction(ReentryTag, c, Given(p))
    \/ \E c \in ReturningFilters, p \in Priorities : addFilter(ReentryTag, c, Given(p))
    \/ \E o \in Options : doAction(ReentryTag, o)
    \/ \E v \in Values, o \in Options : applyFilters(ReentryTag, v, o)
    \/ InvokePlain
    \/ InvokeAdd
    \/ InvokeRemove
    \/ Return

SpecPass == Init /\ [][NextPass]_vars /\ WF_vars(PassStep)

(***************************************************************************)
(* C18: a doAction / applyFilters whose callbacks return and start no      *)
(* dispatch terminates, having invoked exactly as many callbacks as the    *)
(* tag held entries when it began, also when callbacks register entries    *)
(* under the tag during the pass: a pass never invokes more callbacks than *)
(* that, a pass that has returned has invoked exactly that many, and every *)
(* pass in progress returns.                                               *)
(***************************************************************************)
C18_PassBounded ==
    Dispatching =>
        /\ Len(log) <= Len(call.reg)
        /\ result.outcome # "threw"
        /\ result.outcome = "returned" => (stack = <<>> /\ Len(log) = Len(call.reg))

C18_PassTerminates ==
    /\ []C18_PassBounded
    /\ (result.outcome = "running") ~> (result.outcome = "returned")

\* A returned doAction over aAdd and one more callback: two invocations,
\* while the array, with the entry aAdd registered during the pass at a
\* priority that sorts it first, holds three entries.
C18_Witness ==
    /\ call.kind = "doAction"
    /\ result.outcome = "returned"
    /\ Len(call.reg) = 2
    /\ Count(call.reg, "aAdd") = 1
    /\ call.reg[1].priority = 10 /\ call.reg[2].priority = 10
    /\ call.options = 5
    /\ Len(log) = 2
    /\ Len(actions[ReentryTag].items) = 3

(***************************************************************************)
(* Callers whose callbacks dispatch from inside a dispatch, on two         *)
(* ordinary tags:                                                          *)
(*   aDoSame   (options) => { if (!busy) { busy = true;                    *)
(*                 hooks.doAction(ReentryTag, options); busy = false } }   *)
(*   aDoOther  (options) => hooks.doAction(OtherTag, options)              *)
(*   aNest     (options) => { hooks.applyFilters(ReentryTag, 0, options) } *)
(* aDoSame may be registered under both tags; aDoOther, which would call   *)
(* itself without end under the other tag, only under the reentry tag.     *)
(***************************************************************************)
\* busy: a doAction that aDoSame made has not returned yet, that is, some
\* dispatch below the innermost one is in the middle of invoking aDoSame.
Busy ==
    \E i \in 1..(Len(stack) - 1) : stack[i].callbacks[stack[i].done + 1] = "aDoSame"

\* A doAction a callback makes that is put off until after the pass (as
\* with setTimeout): the callback returns without the inner pass having run.
NestedDoActionDeferred(tag) ==
    /\ stack' = Advance(stack)
    /\ UNCHANGED <<actions, result>>

\* What a callback's hooks.doAction(tag, options) does to the state.
NestedDoAction(tag) ==
    LET top == stack[Len(stack)]
        d == Dispatched(actions, tag) IN
    /\ actions' = d.store
    /\ stack' = CASE d.status = "list" ->
                       Append(stack, NewFrame("action", tag, d.callbacks, 0, top.options))
                  [] d.status = "absent" -> Advance(stack)
                  [] OTHER -> AfterThrow(stack)
    /\ result' = IF d.status = "threw" THEN Outcome(result.op, d.err, RetUndefined)
                 ELSE result

InvokeDoSame ==
    /\ Pending
    /\ Current = "aDoSame"
    /\ IF Busy
       THEN /\ stack' = Advance(stack)
            /\ UNCHANGED <<actions, result>>
       ELSE NestedDoAction(ReentryTag)
    /\ log' = Invoked(Current)
    /\ UNCHANGED <<filters, regActions, regFilters, call>>

InvokeDoOther ==
    /\ Pending
    /\ Current = "aDoOther"
    /\ NestedDoAction(OtherTag)
    /\ log' = Invoked(Current)
    /\ UNCHANGED <<filters, regActions, regFilters, call>>

NextNest ==
    \/ \E c \in {"a1", "aNest", "aDoSame", "aDoOther"}, p \in Priorities :
           addAction(ReentryTag, c, Given(p))
    \/ \E c \in {"a1", "aDoSame"}, p \in Priorities : addAction(OtherTag, c, Given(p))
    \/ \E c \in {"f1", "f2"}, p \in Priorities : addFilter(ReentryTag, c, Given(p))
    \/ \E t \in TwoTags, c \in {"a1", "aDoSame"} : removeAction(t, c)
    \/ \E t \in TwoTags : doAction(t, TwoTagsOption)
    \/ InvokePlain
    \/ InvokeNest
    \/ InvokeDoSame
    \/ InvokeDoOther
    \/ Return

SpecNest == InitTags /\ [][NextNest]_vars

(***************************************************************************)
(* C16: dispatch is synchronous and properly nested.  When a callback      *)
(* invoked by doAction itself calls doAction (on the same tag or another)  *)
(* or applyFilters, every callback of the inner dispatch is invoked, in    *)
(* the inner tag's priority order, before the outer dispatch invokes its   *)
(* next callback, at every depth of nesting; the outer dispatch then goes  *)
(* on with the rest of its own list.  The invocations of a doAction, with  *)
(* their depths, are at every moment the first ones of the sequence the    *)
(* registrations prescribe, and all of it once the doAction has returned.  *)
(***************************************************************************)
At(callbacks, depth) ==
    [i \in 1..Len(callbacks) |-> [callback |-> callbacks[i], depth |-> depth]]

\* The invocations of a dispatch of `tag` at `depth`: each callback of the
\* tag in priority order, followed at once by the invocations of the
\* dispatch that callback makes.
RECURSIVE NestedOrder(_, _, _)
RECURSIVE NestedOver(_, _, _)
NestedOrder(tag, depth, busy) ==
    NestedOver(CallbacksOf(PriorityOrder(regActions[tag])), depth, busy)
NestedOver(callbacks, depth, busy) ==
    IF callbacks = <<>> THEN <<>>
    ELSE LET c == Head(callbacks)
             inner ==
                 CASE c = "aDoSame" /\ ~busy -> NestedOrder(ReentryTag, depth + 1, TRUE)
                   [] c = "aDoOther" -> NestedOrder(OtherTag, depth + 1, busy)
                   [] c = "aNest" ->
                        At(CallbacksOf(PriorityOrder(regFilters[ReentryTag])), depth + 1)
                   [] OTHER -> <<>>
         IN <<[callback |-> c, depth |-> depth]>> \o inner
                \o NestedOver(Tail(callbacks), depth, busy)

C16_ProperlyNested ==
    call.kind = "doAction" =>
        /\ result.outcome # "threw"
        /\ IsPrefix(log, NestedOrder(call.tag, 1, FALSE))
        /\ result.outcome = "returned" =>
              (stack = <<>> /\ log = NestedOrder(call.tag, 1, FALSE))

\* The reentry tag holds aDoOther at priority 10 and, registered after it,
\* aDoSame at priority 5; the other tag holds a1.  The returned doAction of
\* the reentry tag invoked aDoSame, inside it the reentry tag's pass again
\* (aDoSame, which is busy, then aDoOther and inside it a1 at depth 3),
\* and then went on with its own aDoOther and, inside it, a1.
C16_Witness ==
    /\ call.kind = "doAction"
    /\ call.tag = ReentryTag
    /\ result.outcome = "returned"
    /\ Entries(regActions[ReentryTag]) = <<[priority |-> 10, callback |-> "aDoOther"],
                                            [priority |-> 5, callback |-> "aDoSame"]>>
    /\ CallbacksOf(regActions[OtherTag]) = <<"a1">>
    /\ log = <<[callback |-> "aDoSame", depth |-> 1],
               [callback |-> "aDoSame", depth |-> 2],
               [callback |-> "aDoOther", depth |-> 2],
               [callback |-> "a1", depth |-> 3],
               [callback |-> "aDoOther", depth |-> 1],
               [callback |-> "a1", depth |-> 2]>>

====
